---------------------------- MODULE Spec2Model ----------------------------
(***************************************************************************)
(* A model of the airwaves_scheduler scripts.                              *)
(*                                                                         *)
(*   schedule.py : parse_schedule_file, get_color_for_rank,                *)
(*                 generate_html_table, main        (specification Spec)   *)
(*   rank.py     : load_rankings, save_rankings, main                      *)
(*                                                  (specification SpecRank)*)
(*   schedule.py : get_color_for_rank alone         (specification SpecColor)*)
(*                                                                         *)
(* Text is modelled as sequences of one-character strings, so that         *)
(* str.strip, the indentation count, the event regular expression,         *)
(* str.split(':') and int() are computed character by character.           *)
(***************************************************************************)
EXTENDS Integers, Sequences, FiniteSets, TLC

(***************************************************************************)
(* Bounds of the model.                                                    *)
(***************************************************************************)
\* the number of lines read from the schedule file
MaxLines == 4
\* the number of artists left to rank in a ranking session
MaxArtists == 2
\* the number of answers typed at the prompt during a ranking session
MaxInputs == 3
\* the largest rank handed to get_color_for_rank, in quarter units (4*rank)
MaxRank4 == 44

(***************************************************************************)
(* Characters and their order (code point order, as Python's sorted uses). *)
(***************************************************************************)
Chars ==
    << " ", "(", ")", "+", "-", "0", "1", "2", "3", "4", "5", "6", "7", "8",
       "9", ":", "A", "B", "C", "E", "F", "H", "S", "a", "b", "e", "r", "s",
       "v", "x" >>

Digits == << "0", "1", "2", "3", "4", "5", "6", "7", "8", "9" >>

\* the index of character c in Chars: its rank in code point order
Ord(c) == CHOOSE i \in 1..Len(Chars) : Chars[i] = c

\* str < str of Python: lexicographic by code point, a proper prefix first
RECURSIVE StrLess(_, _)
StrLess(s, t) ==
    IF t = << >> THEN FALSE
    ELSE IF s = << >> THEN TRUE
    ELSE IF Head(s) # Head(t) THEN Ord(Head(s)) < Ord(Head(t))
    ELSE StrLess(Tail(s), Tail(t))

IsSpace(c) == c = " "

\* str.lstrip(' ') / the left half of str.strip()
RECURSIVE LStrip(_)
LStrip(s) ==
    IF s # << >> /\ IsSpace(Head(s)) THEN LStrip(Tail(s)) ELSE s

RECURSIVE RStrip(_)
RStrip(s) ==
    IF s # << >> /\ IsSpace(s[Len(s)])
    THEN RStrip(SubSeq(s, 1, Len(s) - 1))
    ELSE s

\* str.strip()
Strip(s) == RStrip(LStrip(s))

\* len(line) - len(line.lstrip(' '))
Indentation(line) == Len(line) - Len(LStrip(line))

\* the value None; it is tested only for truthiness, like the empty string
None == << >>


(***************************************************************************)
(* event_regex of schedule.py line 21: any text, one white space, "(",     *)
(* one or more characters other than ")", then ")" at the end of the text. *)
(* A match splits the text at a white space followed by "(", with the rest *)
(* up to the final ")" holding at least one character and no ")"; the      *)
(* greedy first group takes the last such place.                           *)
(***************************************************************************)
NoParen(s) == \A k \in 1..Len(s) : s[k] # ")"

EventSplits(s) ==
    { p \in 1..Len(s) :
        /\ IsSpace(s[p])
        /\ p + 3 <= Len(s)
        /\ s[p + 1] = "("
        /\ s[Len(s)] = ")"
        /\ NoParen(SubSeq(s, p + 2, Len(s) - 1)) }

SetMax(S) == CHOOSE m \in S : \A k \in S : k <= m

\* event_regex.match(stripped_line), with match.groups() when it matches
EventMatch(s) ==
    IF EventSplits(s) = {}
    THEN [matched |-> FALSE, artist |-> << >>, venue |-> << >>]
    ELSE LET p == SetMax(EventSplits(s))
         IN  [matched |-> TRUE,
              artist  |-> SubSeq(s, 1, p - 1),
              venue   |-> SubSeq(s, p + 2, Len(s) - 1)]

(***************************************************************************)
(* int(text): surrounding white space is dropped, one sign is allowed, the *)
(* rest must be one or more decimal digits; anything else is a ValueError. *)
(***************************************************************************)
IsDigit(c) == \E d \in 1..10 : Digits[d] = c

DigitVal(c) == (CHOOSE d \in 1..10 : Digits[d] = c) - 1

RECURSIVE DigitsVal(_)
DigitsVal(s) ==
    IF s = << >> THEN 0
    ELSE 10 * DigitsVal(SubSeq(s, 1, Len(s) - 1)) + DigitVal(s[Len(s)])

PyInt(text) ==
    LET s    == Strip(text)
        sign == s # << >> /\ Head(s) \in {"+", "-"}
        body == IF sign THEN Tail(s) ELSE s
        good == body # << >> /\ \A k \in 1..Len(body) : IsDigit(body[k])
    IN  IF ~good THEN [ok |-> FALSE, val |-> 0]
        ELSE [ok |-> TRUE,
              val |-> IF sign /\ Head(s) = "-" THEN 0 - DigitsVal(body)
                      ELSE DigitsVal(body)]

\* t.split(':')[0]: the text before the first ':' (all of it without one)
RECURSIVE BeforeColon(_)
BeforeColon(t) ==
    IF t = << >> \/ Head(t) = ":" THEN << >>
    ELSE << Head(t) >> \o BeforeColon(Tail(t))

(***************************************************************************)
(* Python dicts keep insertion order: a dict is a sequence of              *)
(* [key, val] records with distinct keys.                                  *)
(***************************************************************************)
Keys(d) == { d[k].key : k \in 1..Len(d) }

\* d[key]; the caller has checked key in d (a KeyError otherwise)
Get(d, key) == d[CHOOSE k \in 1..Len(d) : d[k].key = key].val

\* d[key] = val: a known key keeps its place, a new key goes last
DictSet(d, key, val) ==
    IF key \in Keys(d)
    THEN [k \in 1..Len(d) |->
            IF d[k].key = key THEN [key |-> key, val |-> val] ELSE d[k]]
    ELSE Append(d, [key |-> key, val |-> val])

(***************************************************************************)
(* State.                                                                  *)
(***************************************************************************)
VARIABLES
    \* schedule.py: the run of main()
    pc,             \* where main() and parse_schedule_file() stand
    lineno,         \* lines of the schedule file consumed so far
    schedule,       \* dict: day -> dict: time -> list of events
    current_day,
    current_time,
    printed,        \* what was printed, in order: [msg, line]
    dropped,        \* numbers of the event lines that added no event
    rankings_file,  \* rankings.yaml on disk: [kind, lines]
    rankings,       \* the rankings dict in memory
    html_content,   \* what generate_html_table returned
    output_file,    \* schedule.html on disk
    \* rank.py: the ranking session
    rpc,            \* where rank.py main() stands
    todo,           \* artists_to_rank not yet reached, after the shuffle
    artist,         \* the artist being ranked
    ranking,        \* the local variable ranking
    loaded,         \* the rankings as load_rankings returned them
    confirmed,      \* the ranks saved in this session: name -> rank
    skipped,        \* the names skipped in this session, in order
    ninputs,        \* answers typed at the prompt so far
    \* get_color_for_rank on its own
    cpc,            \* "call" before, "return" after
    rank_arg,
    color_result

schedVars == << pc, lineno, schedule, current_day, current_time, printed,
                dropped, html_content, output_file >>

storeVars == << rankings_file, rankings >>

rankVars == << rpc, todo, artist, ranking, loaded, confirmed, skipped,
              ninputs >>

colorVars == << cpc, rank_arg, color_result >>

vars == << schedVars, storeVars, rankVars, colorVars >>

(***************************************************************************)
(* Values of the rankings store: a Python int, float, str or None, the     *)
(* number held in quarter units (r4 = 4 * value) so that 5.5 is the        *)
(* integer 22.                                                             *)
(***************************************************************************)
PyIntVal(n) == [type |-> "int", r4 |-> 4 * n]

PyFloatVal(q) == [type |-> "float", r4 |-> q]

PyStr == [type |-> "str", r4 |-> 0]

PyNone == [type |-> "NoneType", r4 |-> 0]

(***************************************************************************)
(* The lines a schedule file is made of.                                   *)
(***************************************************************************)
Sp(n) == [k \in 1..n |-> " "]

DayLines == { << "F", "r" >>, << "S", "a" >> }

TimeLabels ==
    { << "2", "0", ":", "0", "0" >>, << "2", "0", ":", "3", "0" >>,
      << "2", "3", ":", "0", "0" >>, << "0", "0", ":", "3", "0" >>,
      << "E", "v", "e" >> }

EventTexts ==
    { << "A", " ", "(", "H", ")" >>, << "B", " ", "(", "C", ")" >>,
      << "A", " ", "(", "H" >> }

InputLines ==
    DayLines
    \cup { Sp(2) \o t : t \in TimeLabels }
    \cup { Sp(4) \o e : e \in EventTexts }
    \cup { Sp(6) \o << "B", " ", "(", "H", ")", " " >>,
           Sp(3) \o << "x" >>,
           Sp(2) }

Say(msg, line) == [msg |-> msg, line |-> line]

(***************************************************************************)
(* get_color_for_rank, schedule.py lines 60-84.                            *)
(* With rank = r4 / 4 the quotient (rank - 1) / 4.5 is (r4 - 4) / 18, so   *)
(* 255 * (1 - percent) is 255 * (22 - r4) / 18, and in the second segment  *)
(* (rank - 5.5) / 4.5 is (r4 - 22) / 18.  Quarter ranks are exact binary   *)
(* floating point numbers, and for ranks from 0 to 11.25 the floating      *)
(* point results of the code truncate to these exact quotients.            *)
(***************************************************************************)
\* a variant that rounds to the nearest integer instead of truncating
Trunc_rounding(n, d) ==
    IF n >= 0 THEN (2 * n + d) \div (2 * d)
    ELSE 0 - ((2 * (0 - n) + d) \div (2 * d))

\* int(x) for x = n / d, d > 0: truncation toward zero
Trunc(n, d) == IF n >= 0 THEN n \div d ELSE 0 - ((0 - n) \div d)

HexDigits ==
    << "0", "1", "2", "3", "4", "5", "6", "7", "8", "9",
       "a", "b", "c", "d", "e", "f" >>

RECURSIVE HexStr(_)
HexStr(n) ==
    IF n < 16 THEN HexDigits[n + 1]
    ELSE HexStr(n \div 16) \o HexDigits[(n % 16) + 1]

\* f'{n:02x}'
Format02x(n) ==
    IF n < 0 THEN "-" \o HexStr(0 - n)
    ELSE IF n < 16 THEN "0" \o HexStr(n)
    ELSE HexStr(n)

\* lines 70-79: the three channels after int()
Channels(r4) ==
    IF r4 <= 22
    THEN [red   |-> Trunc(255 * (22 - r4), 18),
          green |-> 0,
          blue  |-> Trunc(255 * (r4 - 4), 18)]
    ELSE [red   |-> 0,
          green |-> Trunc(255 * (r4 - 22), 18),
          blue  |-> Trunc(255 * (40 - r4), 18)]

\* lines 80-81: luminance < 0.5, with luminance =
\* (0.299 * red + 0.587 * green + 0.114 * blue) / 255, scaled by 255000
TextColor(c) ==
    IF 299 * c.red + 587 * c.green + 114 * c.blue < 127500
    THEN "#ffffff" ELSE "#000000"

\* line 82
BackgroundColor(c) ==
    "#" \o Format02x(c.red) \o Format02x(c.green) \o Format02x(c.blue)

\* the pair (None, None); '' stands for None, both are falsy and the
\* function returns no empty string
NoColor == [background_color |-> "", text_color |-> ""]

get_color_for_rank(rank) ==
    IF rank.type \notin {"int", "float"} THEN NoColor
    ELSE LET c == Channels(rank.r4)
         IN  [background_color |-> BackgroundColor(c),
              text_color       |-> TextColor(c)]

(***************************************************************************)
(* sorted(): of a set of texts, and the stable sort by an integer key.     *)
(***************************************************************************)
StrMin(S) == CHOOSE m \in S : \A t \in S : t = m \/ StrLess(m, t)

\* sorted(list(S)) for a set S of texts
RECURSIVE SortedStrs(_)
SortedStrs(S) ==
    IF S = {} THEN << >>
    ELSE << StrMin(S) >> \o SortedStrs(S \ {StrMin(S)})

\* x put into the key-sorted sequence s after every item whose key is not
\* greater: items of equal key keep the order in which they are inserted
RECURSIVE InsertByKey(_, _)
InsertByKey(s, x) ==
    IF s = << >> THEN << x >>
    ELSE IF x.key < Head(s).key THEN << x >> \o s
    ELSE << Head(s) >> \o InsertByKey(Tail(s), x)

\* sorted(items, key=...): Python's sort is stable
RECURSIVE StableSort(_)
StableSort(s) ==
    IF s = << >> THEN << >>
    ELSE InsertByKey(StableSort(SubSeq(s, 1, Len(s) - 1)), s[Len(s)])

(***************************************************************************)
(* generate_html_table, schedule.py lines 86-175.  The document is kept    *)
(* as its structure: per day the heading, the header cells and the rows,   *)
(* per row the time cell and one cell per venue column, per cell the list  *)
(* of artist elements with their attributes.                               *)
(***************************************************************************)
\* lines 88-93: the venues of every event of every time of every day
all_venues(sched) ==
    SortedStrs(UNION { UNION { { sched[d].val[t].val[e].venue :
                                   e \in 1..Len(sched[d].val[t].val) } :
                               t \in 1..Len(sched[d].val) } :
                       d \in 1..Len(sched) })

\* a variant of the sort key that does not move the hours below 5 past
\* midnight
time_sort_key_plain(t) ==
    LET h == PyInt(BeforeColon(t))
    IN  [ok |-> h.ok, key |-> h.val]

\* lines 128-130: int(t.split(':')[0]), plus 24 below 5; int() may raise
time_sort_key(t) ==
    LET h == PyInt(BeforeColon(t))
    IN  [ok |-> h.ok, key |-> IF h.val < 5 THEN h.val + 24 ELSE h.val]

\* line 132: sorted(day_events.keys(), key=time_sort_key)
SortedTimes(day_events) ==
    LET keyed == [k \in 1..Len(day_events) |->
                    [time |-> day_events[k].key,
                     key  |-> time_sort_key(day_events[k].key).key]]
        srt   == StableSort(keyed)
    IN  [k \in 1..Len(srt) |-> srt[k].time]

\* lines 134-137: the artists of the events whose venue is this column
RECURSIVE ArtistsAt(_, _)
ArtistsAt(events, venue) ==
    IF events = << >> THEN << >>
    ELSE (IF Head(events).venue = venue THEN << Head(events).artist >>
          ELSE << >>) \o ArtistsAt(Tail(events), venue)

\* d.get(key): None for a missing key
DictGet(d, key) == IF key \in Keys(d) THEN Get(d, key) ELSE PyNone

\* a variant that writes the background declaration whether or not
\* get_color_for_rank returned a colour
StyleOf_unconditional(rank) ==
    LET c == get_color_for_rank(rank)
    IN  "background-color: " \o c.background_color \o ";"
        \o (IF c.text_color # "" THEN " color: " \o c.text_color \o ";"
            ELSE "")

\* lines 151-159: the value of the style attribute
StyleOf(rank) ==
    LET c == get_color_for_rank(rank)
    IN  IF c.background_color # ""
        THEN "background-color: " \o c.background_color \o ";"
             \o (IF c.text_color # "" THEN " color: " \o c.text_color \o ";"
                 ELSE "")
        ELSE ""

\* lines 161-163: <li><span class="artist-cell" style="...">artist</span></li>
ArtistSpan(name, ranks) ==
    [text  |-> name,
     attrs |-> [class |-> "artist-cell", style |-> StyleOf(DictGet(ranks, name))]]

\* lines 141-168: one cell; no artist gives the empty cell <td></td>
VenueCell(events, venue, ranks) ==
    LET artists == ArtistsAt(events, venue)
    IN  [k \in 1..Len(artists) |-> ArtistSpan(artists[k], ranks)]

\* a variant that leaves out the cell of a venue with no event in the slot
TimeRow_omitting(time, events, venues, ranks) ==
    [time  |-> time,
     cells |-> SelectSeq([v \in 1..Len(venues) |->
                            VenueCell(events, venues[v], ranks)],
                         LAMBDA c : c # << >>)]

\* lines 139-170: one row
TimeRow(time, events, venues, ranks) ==
    [time  |-> time,
     cells |-> [v \in 1..Len(venues) |-> VenueCell(events, venues[v], ranks)]]

\* lines 120-172: one day's heading and table
DayTable(day, day_events, venues, ranks) ==
    LET times == SortedTimes(day_events)
    IN  [h2    |-> day,
         thead |-> << << "T", "i", "m", "e" >> >> \o venues,
         tbody |-> [k \in 1..Len(times) |->
                      TimeRow(times[k], Get(day_events, times[k]), venues, ranks)]]

\* int() raises ValueError in the sort key of some time slot
SortRaises(sched) ==
    \E d \in 1..Len(sched) : \E k \in 1..Len(sched[d].val) :
        ~time_sort_key(sched[d].val[k].key).ok

generate_html_table(sched, ranks) ==
    IF SortRaises(sched) THEN [raised |-> TRUE, days |-> << >>]
    ELSE [raised |-> FALSE,
          days   |-> [d \in 1..Len(sched) |->
                        DayTable(sched[d].key, sched[d].val,
                                 all_venues(sched), ranks)]]

(***************************************************************************)
(* The rankings store, rankings.yaml: absent, not parseable, or a YAML     *)
(* mapping held as its lines, one [key, val] per entry.                    *)
(***************************************************************************)
StoreFile(kind, lines) == [kind |-> kind, lines |-> lines]

Entry(name, val) == [key |-> name, val |-> val]

\* yaml.safe_load(f): raises on a document that does not parse; the lines
\* become the dict in their order; the empty document gives None, which
\* both callers turn into {}
YamlLoad(file) ==
    [raised |-> file.kind = "malformed", value |-> file.lines]

\* yaml.dump(rankings, f, sort_keys=True, ...): one line per entry, by key
YamlDump(d) ==
    LET names == SortedStrs(Keys(d))
    IN  StoreFile("yaml", [k \in 1..Len(names) |-> Entry(names[k], Get(d, names[k]))])

\* os.path.exists(RANKINGS_FILE)
Exists(file) == file.kind # "absent"

ArtistA == << "A" >>

ArtistB == << "B" >>

ArtistC == << "C" >>

\* the stores a render run may find
RenderStores ==
    { StoreFile("absent", << >>),
      StoreFile("malformed", << >>),
      StoreFile("yaml", << >>),
      StoreFile("yaml", << Entry(ArtistA, PyIntVal(8)) >>),
      StoreFile("yaml", << Entry(ArtistA, PyIntVal(1)),
                           Entry(ArtistB, PyFloatVal(22)) >>),
      StoreFile("yaml", << Entry(ArtistB, PyStr) >>) }

NoOutput == [written |-> FALSE, days |-> << >>]

(***************************************************************************)
(* schedule.py: parse_schedule_file (lines 10-58) and main (177-199).      *)
(***************************************************************************)
RankIdle ==
    /\ rpc = "idle"
    /\ todo = << >>
    /\ artist = None
    /\ ranking = PyNone
    /\ loaded = << >>
    /\ confirmed = << >>
    /\ skipped = << >>
    /\ ninputs = 0

ColorIdle ==
    /\ cpc = "idle"
    /\ rank_arg = PyNone
    /\ color_result = NoColor

SchedIdle ==
    /\ pc = "idle"
    /\ lineno = 0
    /\ schedule = << >>
    /\ current_day = None
    /\ current_time = None
    /\ printed = << >>
    /\ dropped = << >>
    /\ html_content = << >>
    /\ output_file = NoOutput

Init ==
    /\ pc = "open"
    /\ lineno = 0
    /\ schedule = << >>
    /\ current_day = None
    /\ current_time = None
    /\ printed = << >>
    /\ dropped = << >>
    /\ html_content = << >>
    /\ output_file = NoOutput
    /\ rankings_file \in RenderStores
    /\ rankings = << >>
    /\ RankIdle
    /\ ColorIdle

\* line 24: open(filename); lines 50-52 when the file is missing
OpenSchedule ==
    /\ pc = "open"
    /\ \/ /\ pc' = "parsing"
          /\ UNCHANGED printed
       \/ /\ pc' = "aborted"
          /\ printed' = Append(printed, Say("Error: schedule file not found", 0))
    /\ UNCHANGED << lineno, schedule, current_day, current_time, dropped,
                    html_content, output_file, storeVars, rankVars, colorVars >>

\* lines 25-48: one turn of the loop, for the next line of the file
ReadLine(line) ==
    /\ pc = "parsing"
    /\ lineno < MaxLines
    /\ lineno' = lineno + 1
    /\ LET stripped_line == Strip(line)
           indentation   == Indentation(line)
           match         == EventMatch(stripped_line)
       IN  IF stripped_line = << >>
           THEN UNCHANGED << pc, schedule, current_day, current_time,
                             printed, dropped >>
           ELSE IF indentation = 0
           THEN /\ current_day' = stripped_line
                /\ schedule' = DictSet(schedule, stripped_line, << >>)
                /\ UNCHANGED << pc, current_time, printed, dropped >>
           ELSE IF indentation = 2
           THEN /\ current_time' = stripped_line
                /\ schedule' =
                     IF current_day # None
                     THEN DictSet(schedule, current_day,
                                  DictSet(Get(schedule, current_day),
                                          stripped_line, << >>))
                     ELSE schedule
                /\ UNCHANGED << pc, current_day, printed, dropped >>
           ELSE IF indentation >= 4
           THEN IF current_day # None /\ current_time # None
                THEN IF match.matched
                     THEN IF current_time \in Keys(Get(schedule, current_day))
                          THEN /\ schedule' =
                                    DictSet(schedule, current_day,
                                      DictSet(Get(schedule, current_day),
                                        current_time,
                                        Append(Get(Get(schedule, current_day),
                                                   current_time),
                                               [artist |-> Strip(match.artist),
                                                venue  |-> match.venue])))
                               /\ UNCHANGED << pc, current_day, current_time,
                                               printed, dropped >>
                          \* schedule[current_day][current_time] raises
                          \* KeyError; lines 54-56 print and return None,
                          \* and main returns at line 181
                          ELSE /\ pc' = "aborted"
                               /\ printed' = Append(printed,
                                    Say("An unexpected error occurred", 0))
                               /\ dropped' = Append(dropped, lineno + 1)
                               /\ UNCHANGED << schedule, current_day,
                                               current_time >>
                     ELSE /\ printed' = Append(printed,
                               Say("Warning: Could not parse event line",
                                   lineno + 1))
                          /\ dropped' = Append(dropped, lineno + 1)
                          /\ UNCHANGED << pc, schedule, current_day,
                                          current_time >>
                ELSE /\ dropped' = Append(dropped, lineno + 1)
                     /\ UNCHANGED << pc, schedule, current_day, current_time,
                                     printed >>
           ELSE UNCHANGED << pc, schedule, current_day, current_time,
                             printed, dropped >>
    /\ UNCHANGED << html_content, output_file, storeVars, rankVars, colorVars >>

\* the loop ends with the file; line 58 returns the schedule to main
EndOfFile ==
    /\ pc = "parsing"
    /\ pc' = "load"
    /\ UNCHANGED << lineno, schedule, current_day, current_time, printed,
                    dropped, html_content, output_file, storeVars, rankVars,
                    colorVars >>

\* main, lines 183-190; yaml.safe_load is not guarded: what it raises
\* ends the run with a traceback
LoadStore ==
    /\ pc = "load"
    /\ IF Exists(rankings_file)
       THEN IF YamlLoad(rankings_file).raised
            THEN /\ pc' = "crashed"
                 /\ printed' = Append(printed, Say("Loading rankings", 0))
                 /\ UNCHANGED rankings
            ELSE /\ pc' = "generate"
                 /\ rankings' = YamlLoad(rankings_file).value
                 /\ printed' = printed \o << Say("Loading rankings", 0),
                                             Say("Found ranked artists", 0) >>
       ELSE /\ pc' = "generate"
            /\ printed' = printed \o << Say("Loading rankings", 0),
                                        Say("No rankings will be applied", 0) >>
            /\ UNCHANGED rankings
    /\ UNCHANGED << lineno, schedule, current_day, current_time, dropped,
                    html_content, output_file, rankings_file, rankVars,
                    colorVars >>

\* main, lines 192-193; the ValueError of the sort key is not guarded
Generate ==
    /\ pc = "generate"
    /\ printed' = Append(printed, Say("Generating HTML schedule", 0))
    /\ LET html == generate_html_table(schedule, rankings)
       IN  IF html.raised
           THEN pc' = "crashed" /\ UNCHANGED html_content
           ELSE pc' = "write" /\ html_content' = html.days
    /\ UNCHANGED << lineno, schedule, current_day, current_time, dropped,
                    output_file, storeVars, rankVars, colorVars >>

\* main, lines 195-199
WriteOutput ==
    /\ pc = "write"
    /\ output_file' = [written |-> TRUE, days |-> html_content]
    /\ printed' = Append(printed, Say("Success", 0))
    /\ pc' = "done"
    /\ UNCHANGED << lineno, schedule, current_day, current_time, dropped,
                    html_content, storeVars, rankVars, colorVars >>

Next ==
    \/ OpenSchedule
    \/ \E line \in InputLines : ReadLine(line)
    \/ EndOfFile
    \/ LoadStore
    \/ Generate
    \/ WriteOutput

Spec == Init /\ [][Next]_vars

(***************************************************************************)
(* rank.py: load_rankings (51-64), save_rankings (66-74), main (76-154).   *)
(***************************************************************************)
schedRest == << pc, lineno, schedule, current_day, current_time, dropped,
                html_content, output_file >>

\* load_rankings: {} for a missing file, the loaded dict (or {} for None),
\* and {} with a warning when the file cannot be loaded or parsed
load_rankings(file) ==
    IF ~Exists(file) THEN [value |-> << >>, warned |-> FALSE]
    ELSE IF YamlLoad(file).raised THEN [value |-> << >>, warned |-> TRUE]
    ELSE [value |-> YamlLoad(file).value, warned |-> FALSE]

\* a variant that writes only the newest entry of the dict
save_rankings_newest(d) ==
    YamlDump(IF d = << >> THEN d ELSE << d[Len(d)] >>)

\* save_rankings: open(RANKINGS_FILE, 'w') and yaml.dump of the whole dict
save_rankings(d) == YamlDump(d)

\* str.lower() on the letters of the model
Lower(s) ==
    [k \in 1..Len(s) |->
        CASE s[k] = "S" -> "s"
          [] s[k] = "A" -> "a"
          [] s[k] = "B" -> "b"
          [] s[k] = "E" -> "e"
          [] OTHER -> s[k]]

ArtistNames == { ArtistA, ArtistB, ArtistC }

\* the stores a ranking session may find; every name is an artist's
RankStores ==
    { StoreFile("absent", << >>),
      StoreFile("malformed", << >>),
      StoreFile("yaml", << >>),
      StoreFile("yaml", << Entry(ArtistA, PyIntVal(3)) >>),
      StoreFile("yaml", << Entry(ArtistB, PyIntVal(10)),
                           Entry(ArtistC, PyIntVal(1)) >>) }

\* what load_artists_from_file returns: artists with distinct names, each
\* with the video id that its line pattern requires to be non-empty
ArtistLists ==
    { a \in UNION { [1..n -> ArtistNames] : n \in 0..MaxArtists } :
        \A i, j \in 1..Len(a) : i # j => a[i] # a[j] }

ArtistRecord(name) == [name |-> name, youtube_id |-> << "v" >>]

\* what is typed at the prompt
PromptInputs ==
    { << >>, << "s" >>, << " ", "S" >>, << "x" >>, << "0" >>, << "1" >>,
      << "7", " " >>, << "1", "0" >>, << "1", "1" >>, << "-", "3" >> }

\* lines 95-96, then random.shuffle: the artists not yet ranked, any order
NotRanked(artists, d) ==
    { i \in 1..Len(artists) : artists[i] \notin Keys(d) }

Shuffles(artists, d) ==
    { t \in ArtistLists :
        /\ Len(t) = Cardinality(NotRanked(artists, d))
        /\ \A i \in NotRanked(artists, d) :
              \E k \in 1..Len(t) : t[k] = artists[i] }

SkippedMark == PyStr

InitRank ==
    /\ SchedIdle
    /\ ColorIdle
    /\ rankings_file \in RankStores
    /\ rankings = << >>
    /\ rpc = "start"
    /\ todo = << >>
    /\ artist = None
    /\ ranking = PyNone
    /\ loaded = << >>
    /\ confirmed = << >>
    /\ skipped = << >>
    /\ ninputs = 0

\* lines 78-89: no mpv, or no artist list: sys.exit(1)
ExitEarly ==
    /\ rpc = "start"
    /\ rpc' = "exit"
    /\ printed' = Append(printed, Say("Error", 0))
    /\ UNCHANGED << schedRest, storeVars, todo, artist, ranking, loaded,
                    confirmed, skipped, ninputs, colorVars >>

\* lines 86-104: load the artists and the rankings, filter, shuffle
BeginSession(artists, order) ==
    /\ rpc = "start"
    /\ LET got == load_rankings(rankings_file)
       IN  /\ rankings' = got.value
           /\ loaded' = got.value
           /\ printed' = (IF got.warned
                          THEN Append(printed,
                                 Say("Warning: Could not load or parse", 0))
                          ELSE printed)
                         \o << Say("Loaded existing rankings", 0) >>
           /\ order \in Shuffles(artists, got.value)
    /\ todo' = order
    /\ rpc' = IF order = << >> THEN "all ranked" ELSE "next"
    /\ UNCHANGED << schedRest, rankings_file, artist, ranking, confirmed,
                    skipped, ninputs, colorVars >>

\* lines 106-122: the next artist of the loop, played once; line 154 after
\* the last one
NextArtist ==
    /\ rpc = "next"
    /\ IF todo = << >>
       THEN /\ rpc' = "complete"
            /\ UNCHANGED << todo, artist, ranking, skipped >>
       ELSE /\ artist' = Head(todo)
            /\ todo' = Tail(todo)
            /\ IF ArtistRecord(Head(todo)).youtube_id = << >>
               THEN /\ ranking' = SkippedMark
                    /\ skipped' = Append(skipped, Head(todo))
                    /\ rpc' = "next"
               ELSE /\ rpc' = "prompt"
                    /\ UNCHANGED << ranking, skipped >>
    /\ UNCHANGED << schedRest, printed, storeVars, loaded, confirmed, ninputs,
                    colorVars >>

\* line 142
InRange(n) == 1 <= n /\ n <= 10

\* a variant of line 149 that never recognises the skip marker
IsSkipped_never(r) == FALSE

\* line 149
IsSkipped(r) == r = SkippedMark

\* lines 124-152: one answer at the prompt; an answer that ends the loop
\* is followed by lines 149-152, which store the rank unless it is the
\* skip marker
Answer(typed) ==
    /\ rpc = "prompt"
    /\ ninputs < MaxInputs
    /\ ninputs' = ninputs + 1
    /\ LET rank_input  == Lower(Strip(typed))
           n           == PyInt(rank_input)
           replay      == rank_input = << >>
           skip        == ~replay /\ rank_input = << "s" >>
           number      == ~replay /\ ~skip /\ n.ok
           new_ranking == IF skip THEN SkippedMark
                          ELSE IF number THEN PyIntVal(n.val)
                          ELSE ranking
           leaves      == skip \/ (number /\ InRange(n.val))
       IN  /\ ranking' = new_ranking
           /\ IF leaves
              THEN /\ rpc' = "next"
                   /\ IF ~IsSkipped(new_ranking)
                      THEN /\ rankings' = DictSet(rankings, artist, new_ranking)
                           /\ rankings_file' =
                                save_rankings(DictSet(rankings, artist,
                                                      new_ranking))
                           /\ confirmed' = DictSet(confirmed, artist,
                                                   new_ranking)
                           /\ UNCHANGED skipped
                      ELSE /\ skipped' = Append(skipped, artist)
                           /\ UNCHANGED << rankings, rankings_file,
                                           confirmed >>
              ELSE UNCHANGED << rpc, rankings, rankings_file, confirmed,
                                skipped >>
    /\ UNCHANGED << schedRest, printed, todo, artist, loaded, colorVars >>

NextRank ==
    \/ ExitEarly
    \/ \E artists \in ArtistLists : \E order \in ArtistLists :
          BeginSession(artists, order)
    \/ NextArtist
    \/ \E typed \in PromptInputs : Answer(typed)

SpecRank == InitRank /\ [][NextRank]_vars

(***************************************************************************)
(* get_color_for_rank applied to each value of a bounded set of ranks.     *)
(***************************************************************************)
ColorInputs ==
    { PyNone, PyStr }
    \cup { PyIntVal(n) : n \in 0..(MaxRank4 \div 4) }
    \cup { PyFloatVal(q) : q \in 0..MaxRank4 }

InitColor ==
    /\ SchedIdle
    /\ RankIdle
    /\ rankings_file = StoreFile("absent", << >>)
    /\ rankings = << >>
    /\ cpc = "call"
    /\ rank_arg \in ColorInputs
    /\ color_result = NoColor

CallColor ==
    /\ cpc = "call"
    /\ color_result' = get_color_for_rank(rank_arg)
    /\ cpc' = "return"
    /\ UNCHANGED << schedVars, storeVars, rankVars, rank_arg >>

NextColor == CallColor

SpecColor == InitColor /\ [][NextColor]_vars

(***************************************************************************)
(* Properties of parse_schedule_file (specification Spec).                 *)
(***************************************************************************)
EventCount(sched) ==
    Cardinality({ x \in (1..Len(sched)) \X (1..MaxLines) \X (1..MaxLines) :
                    /\ x[2] <= Len(sched[x[1]].val)
                    /\ x[3] <= Len(sched[x[1]].val[x[2]].val) })

\* a Day header was read and no depth-2 line of that day since: the header
\* sets the day's dict to {} and every depth-2 line adds a key to it
DayJustOpened ==
    /\ pc = "parsing"
    /\ current_day # None
    /\ Get(schedule, current_day) = << >>

\* C1: a Day header leaves no time slot open: whatever line arrives after a
\* Day header and before the next depth-2 line of that day, no event is
\* added to the schedule and the parse does not abort, also when an earlier
\* day had opened a time slot.
C1_DayHeaderLeavesNoSlotOpen ==
    [][ DayJustOpened =>
          /\ pc' # "aborted"
          /\ EventCount(schedule') <= EventCount(schedule) ]_vars

\* the line numbers of the event-line warnings, in the order printed
RECURSIVE WarnedLines(_)
WarnedLines(log) ==
    IF log = << >> THEN << >>
    ELSE (IF Head(log).msg = "Warning: Could not parse event line"
          THEN << Head(log).line >> ELSE << >>) \o WarnedLines(Tail(log))

\* C2: every event line (depth >= 4) that adds no Event is skipped with
\* exactly one warning for that line, and never aborts the parse: the lines
\* warned about are exactly the event lines that added nothing, and the
\* parse ends only with the file (or because the file could not be opened).
C2_SkippedEventLineWarnedOnce ==
    /\ WarnedLines(printed) = dropped
    /\ pc = "aborted" => lineno = 0

(***************************************************************************)
(* Properties of main of schedule.py (specification Spec).                 *)
(***************************************************************************)
Parsed == pc \in {"load", "generate", "write", "done", "crashed"}

AfterLoad == pc \in {"generate", "write", "done", "crashed"}

Rendered == pc \in {"write", "done"}

HasStoreWarning(log) ==
    \E k \in 1..Len(log) : log[k].msg = "Warning: Could not load or parse"

\* every artist element of the document
Spans(days) ==
    UNION { UNION { UNION { { days[d].tbody[r].cells[v][k] :
                                k \in 1..Len(days[d].tbody[r].cells[v]) } :
                            v \in 1..Len(days[d].tbody[r].cells) } :
                    r \in 1..Len(days[d].tbody) } :
            d \in 1..Len(days) }

\* C5: a malformed or unreadable ranking store is recoverable in the render
\* run: it is treated as the empty store, a warning is printed and the run
\* goes on, so that the HTML output is written with every artist unranked;
\* the run ends early only where rendering itself fails.
C5_MalformedStoreRecoverable ==
    (AfterLoad /\ rankings_file.kind = "malformed") =>
        /\ rankings = << >>
        /\ HasStoreWarning(printed)
        /\ pc = "crashed" => SortRaises(schedule)
        /\ pc = "done" =>
             /\ output_file.written
             /\ \A sp \in Spans(output_file.days) : sp.attrs.style = ""

\* C10: rendering is total on the parser's output: for every schedule that
\* parse_schedule_file returned, generate_html_table returns a document.
C10_RenderTotalOnParsed ==
    Parsed => ~generate_html_table(schedule, rankings).raised

(***************************************************************************)
(* Properties of generate_html_table (specification Spec), stated on the   *)
(* document that main wrote and the schedule and rankings it was made of.  *)
(***************************************************************************)
\* the custom key as the text states it: the leading hour of the label,
\* plus 24 when the hour is below 5
C6_Key(label) ==
    LET hour == PyInt(BeforeColon(label)).val
    IN  IF hour < 5 THEN hour + 24 ELSE hour

\* the place of a label among the time slots of a day, in source order
C6_SourcePlace(day_events, label) ==
    CHOOSE k \in 1..Len(day_events) : day_events[k].key = label

\* the rows of a day's table are the day's time slots, each once
C6_RowsAreSlots(d) ==
    /\ Len(html_content[d].tbody) = Len(schedule[d].val)
    /\ \A k \in 1..Len(schedule[d].val) :
          \E r \in 1..Len(html_content[d].tbody) :
              html_content[d].tbody[r].time = schedule[d].val[k].key

\* C6 as stated: rows ascend by the custom key, and rows of equal key are
\* in the order of their label strings whatever their order in the source.
C6_TiesInLabelOrder ==
    Rendered =>
        \A d \in 1..Len(html_content) :
            \A i, j \in 1..Len(html_content[d].tbody) :
                i < j =>
                    LET a == html_content[d].tbody[i].time
                        b == html_content[d].tbody[j].time
                    IN  \/ C6_Key(a) < C6_Key(b)
                        \/ C6_Key(a) = C6_Key(b) /\ StrLess(a, b)

\* C6 amended: the rows of each day's table are the day's time slots in
\* ascending order of the custom key, and rows of equal key are in the
\* order in which their labels first appear in the source for that day.
C6_TiesInSourceOrder ==
    Rendered =>
        \A d \in 1..Len(html_content) :
            /\ C6_RowsAreSlots(d)
            /\ \A i, j \in 1..Len(html_content[d].tbody) :
                  i < j =>
                      LET a == html_content[d].tbody[i].time
                          b == html_content[d].tbody[j].time
                      IN  \/ C6_Key(a) < C6_Key(b)
                          \/ /\ C6_Key(a) = C6_Key(b)
                             /\ C6_SourcePlace(schedule[d].val, a)
                                  < C6_SourcePlace(schedule[d].val, b)

\* a written document in which two slots of equal key stand in source
\* order against the order of their labels, and a slot after midnight
\* follows an evening slot that the source gives after it
C6_Witness ==
    /\ pc = "done"
    /\ \E d \in 1..Len(output_file.days) :
          LET rows == output_file.days[d].tbody
          IN  /\ \E i, j \in 1..Len(rows) :
                    /\ i < j
                    /\ C6_Key(rows[i].time) = C6_Key(rows[j].time)
                    /\ StrLess(rows[j].time, rows[i].time)
              /\ \E i, j \in 1..Len(rows) :
                    /\ i < j
                    /\ C6_Key(rows[j].time) >= 24
                    /\ C6_SourcePlace(schedule[d].val, rows[j].time)
                         < C6_SourcePlace(schedule[d].val, rows[i].time)

\* the artist has a number as rank in the store
C7_Ranked(name) == DictGet(rankings, name).type \in {"int", "float"}

C8_Venues ==
    UNION { UNION { { schedule[d].val[t].val[e].venue :
                        e \in 1..Len(schedule[d].val[t].val) } :
                    t \in 1..Len(schedule[d].val) } :
            d \in 1..Len(schedule) }

\* the artists of a time slot of a day at a venue, as a set
C8_ArtistsAt(d, time, venue) ==
    LET evs == Get(schedule[d].val, time)
    IN  { evs[e].artist : e \in { x \in 1..Len(evs) : evs[x].venue = venue } }

\* C8: the venue columns are every distinct venue of the whole schedule in
\* lexicographic order, the same for every day; every header row and every
\* time-slot row has one Time cell plus one cell per venue of that set, and
\* a venue with no event in a slot gives an empty cell, never an omitted one.
C8_SameVenueColumnsEverywhere ==
    Rendered =>
        \A d \in 1..Len(html_content) :
            LET head == html_content[d].thead
            IN  /\ Len(head) = 1 + Cardinality(C8_Venues)
                /\ head[1] = << "T", "i", "m", "e" >>
                /\ { head[k] : k \in 2..Len(head) } = C8_Venues
                /\ \A k \in 2..(Len(head) - 1) : StrLess(head[k], head[k + 1])
                /\ \A r \in 1..Len(html_content[d].tbody) :
                      LET row == html_content[d].tbody[r]
                      IN  /\ Len(row.cells) = Cardinality(C8_Venues)
                          /\ \A v \in 1..Len(row.cells) :
                                { row.cells[v][k].text :
                                    k \in 1..Len(row.cells[v]) }
                                  = C8_ArtistsAt(d, row.time, head[v + 1])

\* a written document with a venue column and a row in which a venue
\* has no event
C8_Witness ==
    /\ pc = "done"
    /\ C8_Venues # {}
    /\ \E d \in 1..Len(output_file.days) :
          \E r \in 1..Len(output_file.days[d].tbody) :
              \E v \in 1..Len(output_file.days[d].tbody[r].cells) :
                  output_file.days[d].tbody[r].cells[v] = << >>

(***************************************************************************)
(* Properties of get_color_for_rank (specification SpecColor).             *)
(***************************************************************************)
\* the rank is a number from 1 to 10
C9_InRange(rank) ==
    /\ rank.type \in {"int", "float"}
    /\ 4 <= rank.r4
    /\ rank.r4 <= 40

\* trunc(255 * num / 18) for a quotient in [0, 255]: the one integer n of
\* 0..255 with n <= 255 * num / 18 < n + 1
C9_Channel(num) ==
    CHOOSE n \in 0..255 : 18 * n <= 255 * num /\ 255 * num < 18 * (n + 1)

\* the interpolation as the text states it, t = num / 18 in both segments
C9_Expected(r4) ==
    IF r4 <= 22
    THEN [red   |-> C9_Channel(18 - (r4 - 4)),
          green |-> 0,
          blue  |-> C9_Channel(r4 - 4)]
    ELSE [red   |-> 0,
          green |-> C9_Channel(r4 - 22),
          blue  |-> C9_Channel(18 - (r4 - 22))]

\* two lowercase hexadecimal digits
C9_Hex2(n) == HexDigits[(n \div 16) + 1] \o HexDigits[(n % 16) + 1]

C9_Hex(c) == "#" \o C9_Hex2(c.red) \o C9_Hex2(c.green) \o C9_Hex2(c.blue)

\* white exactly when (0.299 R + 0.587 G + 0.114 B) / 255 < 0.5
C9_Text(c) ==
    IF 2 * (299 * c.red + 587 * c.green + 114 * c.blue) < 255 * 1000
    THEN "#ffffff" ELSE "#000000"

\* within a segment a channel goes one way as the rank grows
C9_Monotonic ==
    \A p, q \in 4..40 :
        (p < q /\ (q <= 22 \/ p > 22)) =>
            IF q <= 22
            THEN /\ C9_Expected(p).red >= C9_Expected(q).red
                 /\ C9_Expected(p).blue <= C9_Expected(q).blue
            ELSE /\ C9_Expected(p).blue >= C9_Expected(q).blue
                 /\ C9_Expected(p).green <= C9_Expected(q).green

\* C9: for every rank from 1 to 10, get_color_for_rank returns the
\* truncated piecewise-linear interpolation (red to blue up to 5.5, blue to
\* green above) as a 6-digit hex colour, with ff0000 at 1, 0000ff at 5.5
\* and 00ff00 at 10, every channel in 0..255 and monotonic within each
\* segment, and the text colour white exactly when the luminance is below
\* one half.
C9_TruncatedInterpolation ==
    (cpc = "return" /\ C9_InRange(rank_arg)) =>
        /\ \A num \in 0..18 :
              \E n \in 0..255 : 18 * n <= 255 * num /\ 255 * num < 18 * (n + 1)
        /\ color_result.background_color = C9_Hex(C9_Expected(rank_arg.r4))
        /\ color_result.text_color = C9_Text(C9_Expected(rank_arg.r4))
        /\ rank_arg.r4 = 4 => color_result.background_color = "#ff0000"
        /\ rank_arg.r4 = 22 => color_result.background_color = "#0000ff"
        /\ rank_arg.r4 = 40 => color_result.background_color = "#00ff00"
        /\ C9_Monotonic

\* the function has returned for rank 8, where truncation and rounding
\* differ (green 141.67, blue 113.33)
C9_Witness ==
    /\ cpc = "return"
    /\ rank_arg = PyIntVal(8)
    /\ color_result.background_color = "#008d71"
    /\ color_result.text_color = "#ffffff"

(***************************************************************************)
(* Properties of the ranking session (specification SpecRank).             *)
(***************************************************************************)
\* a dict as the mapping it is, whatever the order of its entries
AsMap(d) == [name \in Keys(d) |-> Get(d, name)]

\* the dict a overridden by the entries of b
RECURSIVE Plus(_, _)
Plus(a, b) ==
    IF b = << >> THEN a
    ELSE Plus(DictSet(a, Head(b).key, Head(b).val), Tail(b))

\* between two artists: an artist has been ranked or skipped, and the loop
\* is about to take the next one, waits at its prompt, or has ended
Between ==
    /\ rpc \in {"next", "prompt", "complete"}
    /\ confirmed # << >> \/ skipped # << >>

\* C3 as stated: between two artists the stored mapping is the mapping
\* loaded at the start plus every rank confirmed so far, and the store is
\* fully parseable.
C3_StoreCurrentAndParseable ==
    Between =>
        /\ rankings_file.kind # "malformed"
        /\ AsMap(rankings_file.lines) = AsMap(Plus(loaded, confirmed))

\* C3 amended: between two artists the store, read as load_rankings reads
\* it, is the mapping loaded at the start plus every rank confirmed so
\* far, and so is the dict in memory; from the first confirmed rank on the
\* store is a fully parseable document, while a store that was malformed
\* at the start stays as it was found until then.
C3_StoreCurrentOnceConfirmed ==
    Between =>
        /\ AsMap(load_rankings(rankings_file).value)
             = AsMap(Plus(loaded, confirmed))
        /\ AsMap(rankings) = AsMap(Plus(loaded, confirmed))
        /\ confirmed # << >> => rankings_file.kind = "yaml"
        /\ confirmed # << >> =>
             AsMap(rankings_file.lines) = AsMap(Plus(loaded, confirmed))

\* two ranks confirmed on top of a loaded store, the session between two
\* artists
C3_Witness ==
    /\ rpc = "next"
    /\ Len(confirmed) = 2
    /\ loaded # << >>
    /\ Len(rankings_file.lines) = 3

=============================================================================
